---- MODULE Spec2Model ----
(***************************************************************************)
(* A model of src/functions/transform.js: the Lambda handler that rewrites *)
(* a product CSV (configurable parent/child encoding, additional-attribute *)
(* squashing, automatic stock status).                                     *)
(*                                                                         *)
(* JavaScript values are modelled as follows.                              *)
(*   - a string is the sequence of its characters, <<"s","k","u">>;        *)
(*   - the non-string values the handler can meet are one-element          *)
(*     sequences holding a token longer than one character (UNDEFINED,     *)
(*     NATIVE_FN, NUM_0, NUM_1), so that they differ from every string;    *)
(*   - a plain object ({} or a parsed CSV row) is the sequence of its own  *)
(*     <<key, value>> pairs in insertion order, which is the order of      *)
(*     Object.keys for keys that are not canonical array indices; a read   *)
(*     of a key the object does not own falls through to Object.prototype. *)
(***************************************************************************)
EXTENDS Integers, Sequences, FiniteSets, TLC

(***************************************************************************)
(* Characters and string primitives                                        *)
(***************************************************************************)
\* \w of the regular expression on line 78
WordChars ==
    {"a","b","c","d","e","f","g","h","i","j","k","l","m","n","o","p","q","r",
     "s","t","u","v","w","x","y","z","A","B","C","D","E","F","G","H","I","J",
     "K","L","M","N","O","P","Q","R","S","T","U","V","W","X","Y","Z","0","1",
     "2","3","4","5","6","7","8","9","_"}

\* the white space String.prototype.trim and parseInt strip
WhiteSpace == {" ", "\t", "\n", "\r"}

Digits == <<"0","1","2","3","4","5","6","7","8","9">>

DigitValue(c) == (CHOOSE d \in 1..10 : Digits[d] = c) - 1

IsDigit(c) == \E d \in 1..10 : Digits[d] = c

\* non-string JavaScript values
UNDEFINED == <<"undefined">>
NATIVE_FN == <<"function () { [native code] }">>
NUM_0 == <<"number 0">>
NUM_1 == <<"number 1">>

\* ToBoolean of a string or of one of the values above
Truthy(v) == v # <<>> /\ v # UNDEFINED /\ v # NUM_0

\* String.prototype.trim
RECURSIVE TrimLeft(_)
TrimLeft(s) ==
    IF s # <<>> /\ Head(s) \in WhiteSpace THEN TrimLeft(Tail(s)) ELSE s

RECURSIVE TrimRight(_)
TrimRight(s) ==
    IF s # <<>> /\ s[Len(s)] \in WhiteSpace
    THEN TrimRight(SubSeq(s, 1, Len(s) - 1))
    ELSE s

Trim(s) == TrimRight(TrimLeft(s))

\* Array.prototype.join
RECURSIVE Join(_, _)
Join(parts, sep) ==
    IF parts = <<>> THEN <<>>
    ELSE IF Len(parts) = 1 THEN parts[1]
    ELSE parts[1] \o sep \o Join(Tail(parts), sep)

\* the least member of a set of integers, or none when the set is empty
FirstOf(S, none) ==
    IF S = {} THEN none ELSE CHOOSE p \in S : \A q \in S : p <= q

\* the first position >= from where sep occurs in s, 0 when there is none
FindFrom(s, sep, from) ==
    FirstOf({p \in from..(Len(s) - Len(sep) + 1) :
                SubSeq(s, p, p + Len(sep) - 1) = sep}, 0)

\* String.prototype.split with a non-empty separator
RECURSIVE Split(_, _)
Split(s, sep) ==
    LET p == FindFrom(s, sep, 1)
    IN  IF p = 0 THEN <<s>>
        ELSE <<SubSeq(s, 1, p - 1)>> \o Split(SubSeq(s, p + Len(sep), Len(s)), sep)

\* parseInt(s) in radix 10: [nan |-> TRUE] or [nan |-> FALSE, n |-> the integer]
RECURSIVE DigitRun(_, _)
DigitRun(s, acc) ==
    IF s # <<>> /\ IsDigit(Head(s))
    THEN DigitRun(Tail(s), 10 * acc + DigitValue(Head(s)))
    ELSE acc

ParseInt(v) ==
    LET t    == IF v \in {UNDEFINED, NATIVE_FN} THEN <<>> ELSE TrimLeft(v)
        neg  == t # <<>> /\ Head(t) = "-"
        body == IF t # <<>> /\ Head(t) \in {"-", "+"} THEN Tail(t) ELSE t
    IN  IF body = <<>> \/ ~IsDigit(Head(body))
        THEN [nan |-> TRUE, n |-> 0]
        ELSE [nan |-> FALSE,
              n |-> IF neg THEN 0 - DigitRun(body, 0) ELSE DigitRun(body, 0)]

(***************************************************************************)
(* Plain objects                                                           *)
(***************************************************************************)
\* names every object inherits from Object.prototype
ObjectPrototypeKeys ==
    { <<"v","a","l","u","e","O","f">>,
      <<"t","o","S","t","r","i","n","g">>,
      <<"c","o","n","s","t","r","u","c","t","o","r">> }

Has(o, k) == \E j \in 1..Len(o) : o[j][1] = k

Own(o, k) == o[CHOOSE j \in 1..Len(o) : o[j][1] = k][2]

\* o[k] for an object whose own values are strings
Get(o, k) ==
    IF Has(o, k) THEN Own(o, k)
    ELSE IF k \in ObjectPrototypeKeys THEN NATIVE_FN
    ELSE UNDEFINED

\* o[k] = v
Put(o, k, v) ==
    IF Has(o, k)
    THEN [j \in 1..Len(o) |-> IF o[j][1] = k THEN <<k, v>> ELSE o[j]]
    ELSE Append(o, <<k, v>>)

\* delete o[k]
Delete(o, k) ==
    LET keep(p) == p[1] # k IN SelectSeq(o, keep)

\* Object.keys(o)
Keys(o) == [j \in 1..Len(o) |-> o[j][1]]

\* whether a sequence holds x (columns.indexOf(key) !== -1)
Contains(seq, x) == \E j \in 1..Len(seq) : seq[j] = x

(***************************************************************************)
(* Column names and literals of the source                                 *)
(***************************************************************************)
K_sku == <<"s","k","u">>
K_parent_sku == <<"p","a","r","e","n","t","_","s","k","u">>
K_configurable_attributes ==
    <<"c","o","n","f","i","g","u","r","a","b","l","e","_",
      "a","t","t","r","i","b","u","t","e","s">>
K_configurable_variations ==
    <<"c","o","n","f","i","g","u","r","a","b","l","e","_",
      "v","a","r","i","a","t","i","o","n","s">>
K_configurable_variation_labels ==
    <<"c","o","n","f","i","g","u","r","a","b","l","e","_",
      "v","a","r","i","a","t","i","o","n","_","l","a","b","e","l","s">>
K_additional_attributes ==
    <<"a","d","d","i","t","i","o","n","a","l","_",
      "a","t","t","r","i","b","u","t","e","s">>
K_qty == <<"q","t","y">>
K_is_in_stock == <<"i","s","_","i","n","_","s","t","o","c","k">>

\* no exception pending
NoError == <<>>

\* messages of the TypeErrors the engine raises (their wording is the engine's)
TypeErrorNoData == <<"Cannot convert undefined or null to object">>
TypeErrorNoSku == <<"Cannot read properties of undefined (reading 'trim')">>
TypeErrorNoMatch == <<"Cannot read properties of null (reading 'groups')">>
TypeErrorPush == <<"configurableChildrenByParent[row.parent_sku].push is not a function">>
TypeErrorMap == <<"configurableChildrenByParent[row.sku].map is not a function">>

\* line 126; duplicateSkus.length.length is undefined, so no 's' is ever added
DuplicateSkuMessage(dups) ==
    <<"Can't handle duplicate SKU">> \o <<":", " ">> \o Join(dups, <<",", " ">>)

\* line 164
MissingValueMessage(attributeCode, sku) ==
    <<"Couldn't find value for ">> \o attributeCode
        \o <<" on child simple product ">> \o sku

\* `${v}` of a template literal
JsToString(v) ==
    IF v = NUM_0 THEN <<"0">>
    ELSE IF v = NUM_1 THEN <<"1">>
    ELSE IF v = UNDEFINED THEN <<"u","n","d","e","f","i","n","e","d">>
    ELSE v

(***************************************************************************)
(* The helper functions of the source                                      *)
(***************************************************************************)
RECURSIVE FilterAfterMarker(_, _)
\* FilterAfterMarker keeping the marker as well
FilterAfterMarker_Inclusive(headers, passed) ==
    IF headers = <<>> THEN <<>>
    ELSE IF passed \/ Head(headers) = K_additional_attributes
         THEN <<Head(headers)>> \o FilterAfterMarker(Tail(headers), TRUE)
         ELSE FilterAfterMarker(Tail(headers), FALSE)

\* lines 15-29: the headers after the marker (the marker itself returns false)
FilterAfterMarker(headers, passed) ==
    IF headers = <<>> THEN <<>>
    ELSE IF passed
         THEN <<Head(headers)>> \o FilterAfterMarker(Tail(headers), TRUE)
         ELSE FilterAfterMarker(Tail(headers), Head(headers) = K_additional_attributes)

findAdditionalAttributeHeaders(headers) == FilterAfterMarker(headers, FALSE)

\* lines 31-49, called with an array: the row's own pairs whose key is listed
extractColumns(data, columns) ==
    LET listed(p) == Contains(columns, p[1]) IN SelectSeq(data, listed)

\* lines 51-69, called with an array: the row without the listed keys
purgeColumns(data, columns) ==
    LET kept(p) == ~Contains(columns, p[1]) IN SelectSeq(data, kept)

\* lines 71-75
convertColumnsToStringKeyValue(data, multiValueSeperator) ==
    Join([j \in 1..Len(data) |-> data[j][1] \o <<"=">> \o JsToString(data[j][2])],
         multiValueSeperator)

\* the end of the run of \w characters that starts at p
RECURSIVE WordRunEnd(_, _)
WordRunEnd(s, p) ==
    IF p <= Len(s) /\ s[p] \in WordChars THEN WordRunEnd(s, p + 1) ELSE p

\* line 78: /(?<attributeCode>[^\(\W]*)\W?\((?<label>[^\)]*)\)/ tried at p.
\* The code group is the whole word run p..q-1; \W? takes one character when
\* "(" and a later ")" follow it (closing at cA), and none otherwise (cB).
RegexGroups(s, p, q, cA, cB) ==
    IF cA # 0
    THEN [matched |-> TRUE, attributeCode |-> SubSeq(s, p, q - 1),
          label |-> SubSeq(s, q + 2, cA - 1)]
    ELSE IF cB # 0
    THEN [matched |-> TRUE, attributeCode |-> SubSeq(s, p, q - 1),
          label |-> SubSeq(s, q + 1, cB - 1)]
    ELSE [matched |-> FALSE, attributeCode |-> <<>>, label |-> <<>>]

RegexAfterRun(s, p, q) ==
    RegexGroups(s, p, q,
        IF q + 1 <= Len(s) /\ s[q + 1] = "(" THEN FindFrom(s, <<")">>, q + 2) ELSE 0,
        IF q <= Len(s) /\ s[q] = "(" THEN FindFrom(s, <<")">>, q + 1) ELSE 0)

RegexAt(s, p) == RegexAfterRun(s, p, WordRunEnd(s, p))

\* attr.match(...): the leftmost match, or no match (null)
RegexMatch(s) ==
    RegexAt(s, FirstOf({p \in 1..(Len(s) + 1) : RegexAt(s, p).matched}, Len(s) + 1))

\* .groups of every match; .groups of a null match throws
GroupsOf(matches) ==
    IF \E j \in 1..Len(matches) : ~matches[j].matched
    THEN [err |-> TypeErrorNoMatch, attrs |-> <<>>]
    ELSE [err |-> NoError,
          attrs |-> [j \in 1..Len(matches) |->
                        [attributeCode |-> matches[j].attributeCode,
                         label |-> matches[j].label]]]

MatchAll(parts) == GroupsOf([j \in 1..Len(parts) |-> RegexMatch(parts[j])])

\* lines 77-85: the map throws on a null match, so `return false` is never reached
parseConfigurableAttributes(configurableAttributes) ==
    MatchAll(Split(configurableAttributes, <<",">>))

(***************************************************************************)
(* The handler, pass by pass (lines 87-270)                                *)
(***************************************************************************)
\* only_csv == 1 for the decimal spellings of a query string value
LooseEqualsOne(v) ==
    LET t == IF v = UNDEFINED THEN <<>> ELSE Trim(v)
    IN  /\ t # <<>>
        /\ \A j \in 1..Len(t) : IsDigit(t[j])
        /\ DigitRun(t, 0) = 1

\* lines 91-96; parseInt(...) || null drops NaN and 0 alike
EstablishOptions(query) ==
    LET threshold == ParseInt(query.auto_stock_status_threshold)
    IN  [onlyCsvResponse |-> LooseEqualsOne(query.only_csv),
         multiValueSeperator |->
            IF Truthy(query.multi_value_seperator)
            THEN query.multi_value_seperator ELSE <<"|">>,
         valueGroupSeperator |->
            IF Truthy(query.value_group_seperator)
            THEN query.value_group_seperator ELSE <<"$">>,
         autoStockStatusThreshold |->
            IF threshold.nan \/ threshold.n = 0
            THEN [isNull |-> TRUE, n |-> 0]
            ELSE [isNull |-> FALSE, n |-> threshold.n]]

\* SeenBefore looking at own properties only (skuIndex.hasOwnProperty(row.sku))
SeenBefore_OwnOnly(index, sku) == Has(index, sku)

\* typeof skuIndex[row.sku] !== 'undefined' (line 117): an inherited property
\* is defined as well
SeenBefore(index, sku) == Has(index, sku) \/ sku \in ObjectPrototypeKeys

\* the truth of o[k] when the own values of o are arrays (lines 145, 195): an
\* inherited function is truthy as well
IsDefinedIn(o, k) == Has(o, k) \/ k \in ObjectPrototypeKeys

\* the truth of an array value: [] is truthy (lines 190, 208)
IsTruthyArray(columns) == TRUE

\* row.sku.trim().length === 0 (lines 113, 180)
IsBlankSku(sku) == Len(Trim(sku)) = 0

\* row.sku.length === 0 (line 139)
IsEmptySku(sku) == Len(sku) = 0

\* lines 112-122, one row; i is the 0-based position
IndexStep(ix, row, i) ==
    LET sku == Get(row, K_sku)
    IN  IF sku = UNDEFINED THEN [ix EXCEPT !.err = TypeErrorNoSku]
        ELSE IF IsBlankSku(sku) THEN ix
        ELSE [skuIndex |-> Put(ix.skuIndex, sku, i),
              duplicateSkus |->
                 IF SeenBefore(ix.skuIndex, sku)
                 THEN Append(ix.duplicateSkus, sku) ELSE ix.duplicateSkus,
              err |-> NoError]

\* Object.assign(target, source), and the forEach of lines 162-168
RECURSIVE AssignAll(_, _)
AssignAll(target, source) ==
    IF source = <<>> THEN target
    ELSE AssignAll(Put(target, source[1][1], source[1][2]), Tail(source))

\* line 155
LabelsString(attrs, multiValueSeperator) ==
    Join([j \in 1..Len(attrs) |-> attrs[j].attributeCode \o <<"=">> \o attrs[j].label],
         multiValueSeperator)

\* FirstMissing testing row[code] === undefined instead of !row[code]
FirstMissing_UndefinedOnly(row, attrs) ==
    FirstOf({j \in 1..Len(attrs) : Get(row, attrs[j].attributeCode) = UNDEFINED},
            Len(attrs) + 1)

\* lines 162-168: the position of the first attribute without a value on the row
FirstMissing(row, attrs) ==
    FirstOf({j \in 1..Len(attrs) : ~Truthy(Get(row, attrs[j].attributeCode))},
            Len(attrs) + 1)

\* StoreChild putting the new child first (unshift instead of push)
StoreChild_Unshift(r, row, sku, parent, children, attrs, first, opts) ==
    [children |-> Put(children, parent, <<sku>> \o Own(children, parent)),
     labels   |-> Put(r.labels, parent, LabelsString(attrs, opts.multiValueSeperator)),
     parentOf |-> Put(r.parentOf, sku, parent),
     values   |-> Put(r.values, sku,
                      AssignAll(<<>>,
                          [j \in 1..(first - 1) |->
                              <<attrs[j].attributeCode,
                                Get(row, attrs[j].attributeCode)>>])),
     err      |-> IF first > Len(attrs) THEN NoError
                  ELSE MissingValueMessage(attrs[first].attributeCode, sku)]

\* lines 152-168, with the attributes before position `first` stored
StoreChild(r, row, sku, parent, children, attrs, first, opts) ==
    [children |-> Put(children, parent, Append(Own(children, parent), sku)),
     labels   |-> Put(r.labels, parent, LabelsString(attrs, opts.multiValueSeperator)),
     parentOf |-> Put(r.parentOf, sku, parent),
     values   |-> Put(r.values, sku,
                      AssignAll(<<>>,
                          [j \in 1..(first - 1) |->
                              <<attrs[j].attributeCode,
                                Get(row, attrs[j].attributeCode)>>])),
     err      |-> IF first > Len(attrs) THEN NoError
                  ELSE MissingValueMessage(attrs[first].attributeCode, sku)]

\* lines 145-168 for a child row; children is the map after lines 145-147
RelateChild(r, row, sku, parent, children, parsed, opts) ==
    IF parsed.err # NoError
    THEN [r EXCEPT !.children = children, !.err = parsed.err]
    ELSE IF ~Has(children, parent)
    THEN [r EXCEPT !.err = TypeErrorPush]
    ELSE StoreChild(r, row, sku, parent, children, parsed.attrs,
                    FirstMissing(row, parsed.attrs), opts)

\* lines 138-170, one row
RelateStep(r, row, opts) ==
    IF IsEmptySku(Get(row, K_sku)) THEN r
    ELSE IF ~(Truthy(Get(row, K_parent_sku))
              /\ Truthy(Get(row, K_configurable_attributes)))
    THEN r
    ELSE RelateChild(r, row, Get(row, K_sku), Get(row, K_parent_sku),
                     IF ~IsDefinedIn(r.children, Get(row, K_parent_sku))
                     THEN Put(r.children, Get(row, K_parent_sku), <<>>)
                     ELSE r.children,
                     parseConfigurableAttributes(Get(row, K_configurable_attributes)),
                     opts)

\* VariationsString joining the groups with the multi-value separator
VariationsString_OneSeparator(childSkus, values, opts) ==
    Join([j \in 1..Len(childSkus) |->
             convertColumnsToStringKeyValue(
                 AssignAll(<< <<K_sku, childSkus[j]>> >>,
                           IF Has(values, childSkus[j])
                           THEN Own(values, childSkus[j]) ELSE <<>>),
                 opts.multiValueSeperator)],
         opts.multiValueSeperator)

\* lines 196-203: the configurable_variations value of a parent
VariationsString(childSkus, values, opts) ==
    Join([j \in 1..Len(childSkus) |->
             convertColumnsToStringKeyValue(
                 AssignAll(<< <<K_sku, childSkus[j]>> >>,
                           IF Has(values, childSkus[j])
                           THEN Own(values, childSkus[j]) ELSE <<>>),
                 opts.multiValueSeperator)],
         opts.valueGroupSeperator)

\* lines 213-223
AutoStockStatus(row, opts) ==
    IF /\ ~opts.autoStockStatusThreshold.isNull
       /\ Truthy(Get(row, K_qty))
       /\ Truthy(Get(row, K_is_in_stock))
    THEN LET qty == ParseInt(Get(row, K_qty))
         IN  Put(row, K_is_in_stock,
                 IF ~qty.nan /\ qty.n >= opts.autoStockStatusThreshold.n
                 THEN NUM_1 ELSE NUM_0)
    ELSE row

\* lines 177-234, one row: skip (no push), a TypeError, or the rewritten row
EncodeStep(row, rel, headers, opts) ==
    LET sku == Get(row, K_sku)
    IN  IF IsBlankSku(sku) THEN [skip |-> TRUE, row |-> row, err |-> NoError]
        ELSE
        LET r1 == IF Len(Keys(rel.children)) # 0
                  THEN Put(Put(row, K_configurable_variations, <<>>),
                           K_configurable_variation_labels, <<>>)
                  ELSE row
            r2 == IF IsTruthyArray(headers)
                  THEN Put(r1, K_additional_attributes, <<>>) ELSE r1
        IN  IF IsDefinedIn(rel.children, sku) /\ ~Has(rel.children, sku)
            THEN [skip |-> FALSE, row |-> r2, err |-> TypeErrorMap]
            ELSE
            LET r3 == IF Has(rel.children, sku)
                      THEN Put(Put(r2, K_configurable_variations,
                                   VariationsString(Own(rel.children, sku), rel.values, opts)),
                               K_configurable_variation_labels, Get(rel.labels, sku))
                      ELSE r2
                r4 == IF IsTruthyArray(headers)
                      THEN Put(r3, K_additional_attributes,
                               convertColumnsToStringKeyValue(
                                   extractColumns(r3, headers), opts.multiValueSeperator))
                      ELSE r3
                r5 == AutoStockStatus(r4, opts)
                r6 == purgeColumns(
                          purgeColumns(r5, <<K_parent_sku, K_configurable_attributes>>),
                          headers)
            IN  [skip |-> FALSE, row |-> r6, err |-> NoError]

\* lines 240-246
ErrorResponse(message) ==
    [statusCode |-> 401, fields |-> {"status", "message"}, status |-> "error",
     message |-> message, data |-> <<>>]

\* lines 250-267; data is the record set handed to Papa.unparse
SuccessResponse(rows, opts) ==
    [statusCode |-> 200,
     fields |-> IF opts.onlyCsvResponse THEN {"data"} ELSE {"status", "data"},
     status |-> "success", message |-> NoError, data |-> rows]

(***************************************************************************)
(* The handler as a state machine                                          *)
(***************************************************************************)
VARIABLES
    event,                       \* the request: body (parsed rows) and query
    options,                     \* lines 91-96
    data,                        \* parseCsv(event.body); rows are mutated in place
    additionalAttributeHeaders,  \* line 106
    skuIndex,                    \* line 109
    duplicateSkus,               \* line 110
    configurableChildrenByParent,           \* line 130
    configurableLabelsByParent,             \* line 131
    configurableParentByChildren,           \* line 132
    configurableAttributeValuesByChildren,  \* line 133
    modifiedData,                \* line 99
    i,                           \* 0-based position of the running forEach
    e,                           \* message of the exception thrown inside try
    response,                    \* what callback received
    pc                           \* start, index, duplicates, relate, encode,
                                 \* respond, catch, done

vars == <<event, options, data, additionalAttributeHeaders, skuIndex,
          duplicateSkus, configurableChildrenByParent,
          configurableLabelsByParent, configurableParentByChildren,
          configurableAttributeValuesByChildren, modifiedData, i, e,
          response, pc>>

NoResponse ==
    [statusCode |-> 0, fields |-> {}, status |-> "none", message |-> NoError,
     data |-> <<>>]

NoOptions == EstablishOptions(
    [only_csv |-> UNDEFINED, multi_value_seperator |-> UNDEFINED,
     value_group_seperator |-> UNDEFINED,
     auto_stock_status_threshold |-> UNDEFINED])

\* the state when the handler is entered with a request out of `requests`
InitWith(requests) ==
    /\ event \in requests
    /\ options = NoOptions
    /\ data = <<>>
    /\ additionalAttributeHeaders = <<>>
    /\ skuIndex = <<>>
    /\ duplicateSkus = <<>>
    /\ configurableChildrenByParent = <<>>
    /\ configurableLabelsByParent = <<>>
    /\ configurableParentByChildren = <<>>
    /\ configurableAttributeValuesByChildren = <<>>
    /\ modifiedData = <<>>
    /\ i = 0
    /\ e = NoError
    /\ response = NoResponse
    /\ pc = "start"

rel ==
    [children |-> configurableChildrenByParent,
     labels   |-> configurableLabelsByParent,
     parentOf |-> configurableParentByChildren,
     values   |-> configurableAttributeValuesByChildren,
     err      |-> NoError]

\* lines 91-106: options, parseCsv, the additional attribute headers
Start ==
    /\ pc = "start"
    /\ options' = EstablishOptions(event.query)
    /\ data' = event.body
    /\ IF event.body = <<>>
       THEN /\ e' = TypeErrorNoData
            /\ pc' = "catch"
            /\ UNCHANGED additionalAttributeHeaders
       ELSE /\ additionalAttributeHeaders' =
                   findAdditionalAttributeHeaders(Keys(event.body[1]))
            /\ pc' = "index"
            /\ UNCHANGED e
    /\ UNCHANGED <<event, skuIndex, duplicateSkus, configurableChildrenByParent,
                   configurableLabelsByParent, configurableParentByChildren,
                   configurableAttributeValuesByChildren, modifiedData, i,
                   response>>

\* lines 112-122, one iteration
IndexRow ==
    /\ pc = "index"
    /\ LET ix == IndexStep([skuIndex |-> skuIndex, duplicateSkus |-> duplicateSkus,
                            err |-> NoError], data[i + 1], i)
       IN  /\ skuIndex' = ix.skuIndex
           /\ duplicateSkus' = ix.duplicateSkus
           /\ e' = ix.err
           /\ IF ix.err # NoError
              THEN pc' = "catch" /\ UNCHANGED i
              ELSE IF i + 1 = Len(data)
              THEN pc' = "duplicates" /\ i' = 0
              ELSE pc' = "index" /\ i' = i + 1
    /\ UNCHANGED <<event, options, data, additionalAttributeHeaders,
                   configurableChildrenByParent, configurableLabelsByParent,
                   configurableParentByChildren,
                   configurableAttributeValuesByChildren, modifiedData, response>>

\* lines 125-127
CheckDuplicates ==
    /\ pc = "duplicates"
    /\ IF Len(duplicateSkus) # 0
       THEN e' = DuplicateSkuMessage(duplicateSkus) /\ pc' = "catch"
       ELSE pc' = "relate" /\ UNCHANGED e
    /\ UNCHANGED <<event, options, data, additionalAttributeHeaders, skuIndex,
                   duplicateSkus, configurableChildrenByParent,
                   configurableLabelsByParent, configurableParentByChildren,
                   configurableAttributeValuesByChildren, modifiedData, i,
                   response>>

\* lines 138-170, one iteration
RelateRow ==
    /\ pc = "relate"
    /\ LET r == RelateStep(rel, data[i + 1], options)
       IN  /\ configurableChildrenByParent' = r.children
           /\ configurableLabelsByParent' = r.labels
           /\ configurableParentByChildren' = r.parentOf
           /\ configurableAttributeValuesByChildren' = r.values
           /\ e' = r.err
           /\ IF r.err # NoError
              THEN pc' = "catch" /\ UNCHANGED i
              ELSE IF i + 1 = Len(data)
              THEN pc' = "encode" /\ i' = 0
              ELSE pc' = "relate" /\ i' = i + 1
    /\ UNCHANGED <<event, options, data, additionalAttributeHeaders, skuIndex,
                   duplicateSkus, modifiedData, response>>

\* lines 177-234, one iteration
EncodeRow ==
    /\ pc = "encode"
    /\ LET r == EncodeStep(data[i + 1], rel, additionalAttributeHeaders, options)
       IN  /\ data' = [data EXCEPT ![i + 1] = r.row]
           /\ modifiedData' = IF r.skip \/ r.err # NoError
                              THEN modifiedData ELSE Append(modifiedData, r.row)
           /\ e' = r.err
           /\ IF r.err # NoError
              THEN pc' = "catch" /\ UNCHANGED i
              ELSE IF i + 1 = Len(data)
              THEN pc' = "respond" /\ i' = 0
              ELSE pc' = "encode" /\ i' = i + 1
    /\ UNCHANGED <<event, options, additionalAttributeHeaders, skuIndex,
                   duplicateSkus, configurableChildrenByParent,
                   configurableLabelsByParent, configurableParentByChildren,
                   configurableAttributeValuesByChildren, response>>

\* lines 237-248
SendError ==
    /\ pc = "catch"
    /\ response' = ErrorResponse(e)
    /\ pc' = "done"
    /\ UNCHANGED <<event, options, data, additionalAttributeHeaders, skuIndex,
                   duplicateSkus, configurableChildrenByParent,
                   configurableLabelsByParent, configurableParentByChildren,
                   configurableAttributeValuesByChildren, modifiedData, i, e>>

\* lines 250-267
SendSuccess ==
    /\ pc = "respond"
    /\ response' = SuccessResponse(modifiedData, options)
    /\ pc' = "done"
    /\ UNCHANGED <<event, options, data, additionalAttributeHeaders, skuIndex,
                   duplicateSkus, configurableChildrenByParent,
                   configurableLabelsByParent, configurableParentByChildren,
                   configurableAttributeValuesByChildren, modifiedData, i, e>>

Next ==
    \/ Start
    \/ IndexRow
    \/ CheckDuplicates
    \/ RelateRow
    \/ EncodeRow
    \/ SendError
    \/ SendSuccess

(***************************************************************************)
(* The handler as a function of the request (the same steps, run to the    *)
(* end), used to compare the results of two requests                       *)
(***************************************************************************)
RECURSIVE IndexAll(_, _, _)
IndexAll(ix, rows, k) ==
    IF k > Len(rows) \/ ix.err # NoError THEN ix
    ELSE IndexAll(IndexStep(ix, rows[k], k - 1), rows, k + 1)

RECURSIVE RelateAll(_, _, _, _)
RelateAll(r, rows, k, opts) ==
    IF k > Len(rows) \/ r.err # NoError THEN r
    ELSE RelateAll(RelateStep(r, rows[k], opts), rows, k + 1, opts)

RECURSIVE EncodeAll(_, _, _, _, _, _)
EncodeAll(out, rows, k, r, headers, opts) ==
    IF k > Len(rows) \/ out.err # NoError THEN out
    ELSE LET step == EncodeStep(rows[k], r, headers, opts)
         IN  EncodeAll([rows |-> IF step.skip \/ step.err # NoError
                                 THEN out.rows ELSE Append(out.rows, step.row),
                        err |-> step.err],
                       rows, k + 1, r, headers, opts)

Handler(ev) ==
    LET opts == EstablishOptions(ev.query)
        rows == ev.body
    IN  IF rows = <<>> THEN ErrorResponse(TypeErrorNoData)
        ELSE
        LET headers == findAdditionalAttributeHeaders(Keys(rows[1]))
            ix == IndexAll([skuIndex |-> <<>>, duplicateSkus |-> <<>>,
                            err |-> NoError], rows, 1)
        IN  IF ix.err # NoError THEN ErrorResponse(ix.err)
            ELSE IF Len(ix.duplicateSkus) # 0
            THEN ErrorResponse(DuplicateSkuMessage(ix.duplicateSkus))
            ELSE
            LET r == RelateAll([children |-> <<>>, labels |-> <<>>,
                                parentOf |-> <<>>, values |-> <<>>,
                                err |-> NoError], rows, 1, opts)
            IN  IF r.err # NoError THEN ErrorResponse(r.err)
                ELSE
                LET out == EncodeAll([rows |-> <<>>, err |-> NoError],
                                     rows, 1, r, headers, opts)
                IN  IF out.err # NoError THEN ErrorResponse(out.err)
                    ELSE SuccessResponse(out.rows, opts)

(***************************************************************************)
(* Requests                                                                *)
(***************************************************************************)
\* the most rows a request body carries
MaxRows == 3

\* the most rows of a request of the stock and additional-attribute scenarios
MaxPlainRows == 2

\* a parsed CSV row: the headers in order, each with its cell
Row(headers, cells) == [j \in 1..Len(headers) |-> <<headers[j], cells[j]>>]

\* every body of at most n rows out of pool
Bodies(pool, n) == UNION {[1..k -> pool] : k \in 0..n}

Query(onlyCsv, mvs, vgs, threshold) ==
    [only_csv |-> onlyCsv, multi_value_seperator |-> mvs,
     value_group_seperator |-> vgs, auto_stock_status_threshold |-> threshold]

DefaultQuery == Query(UNDEFINED, UNDEFINED, UNDEFINED, UNDEFINED)

K_color == <<"c","o","l","o","r">>
K_size == <<"s","i","z","e">>
S_valueOf == <<"v","a","l","u","e","O","f">>
A_color == <<"c","o","l","o","r","(","H","u","e",")">>
A_size == <<"s","i","z","e","(","F","i","t",")">>
A_colorSize == A_color \o <<",">> \o A_size

ConfigurableHeaders ==
    <<K_sku, K_parent_sku, K_configurable_attributes, K_color, K_size>>

\* Validation scenario: a family P with children, and rows that fail a pass:
\* a missing value, a spec element without a label, a parent_sku or a sku that
\* names an inherited property, child data on rows with a blank sku.
ValidationRows ==
    {Row(ConfigurableHeaders, cells) : cells \in {
        << <<"P">>, <<>>, <<>>, <<>>, <<>> >>,
        << <<"A">>, <<"P">>, A_colorSize, <<"r">>, <<"S">> >>,
        << <<"A">>, <<"P">>, A_colorSize, <<"r">>, <<>> >>,
        << <<"B">>, <<"P">>, A_colorSize, <<>>, <<"M">> >>,
        << <<"B">>, <<"P">>, <<"c","o","l","o","r",",">> \o A_size, <<"b">>, <<"M">> >>,
        << <<"A">>, S_valueOf, A_color, <<"r">>, <<>> >>,
        << <<" ">>, <<"P">>, A_color, <<>>, <<>> >>,
        << <<" ">>, <<"P">>, A_color, <<"g">>, <<>> >>,
        << <<>>, <<"P">>, A_color, <<>>, <<>> >>,
        << S_valueOf, <<>>, <<>>, <<>>, <<>> >> }}

ValidationRequests ==
    [body : Bodies(ValidationRows, MaxRows),
     query : {DefaultQuery, Query(<<"1">>, UNDEFINED, UNDEFINED, UNDEFINED)}]

Init == InitWith(ValidationRequests)

Spec == Init /\ [][Next]_vars

\* Encoding scenario: a family P whose children declare the same or different
\* specs, repeat a code, name the sku column, carry separator characters in a
\* value, or have a blank sku; with default and with custom separators.
EncodingRows ==
    {Row(ConfigurableHeaders, cells) : cells \in {
        << <<"P">>, <<>>, <<>>, <<>>, <<>> >>,
        << <<"A">>, <<"P">>, A_colorSize, <<"r">>, <<"S">> >>,
        << <<"B">>, <<"P">>, A_colorSize, <<"b">>, <<"M">> >>,
        << <<"B">>, <<"P">>, A_color, <<"b">>, <<>> >>,
        << <<>>, <<"P">>, A_color, <<"g">>, <<>> >>,
        << <<" ">>, <<"P">>, A_color, <<"g">>, <<>> >>,
        << <<"B">>, <<"P">>, A_color, <<"b","|","x","=","y","$","z">>, <<>> >>,
        << <<"A">>, <<"P">>, A_color \o <<",">> \o A_color, <<"r">>, <<>> >>,
        << <<"A">>, <<"P">>, <<"s","k","u","(","I","d",")",",">> \o A_color,
           <<"r">>, <<>> >> }}

EncodingRequests ==
    [body : Bodies(EncodingRows, MaxRows),
     query : {DefaultQuery,
              Query(UNDEFINED, <<";">>, <<"/">>, UNDEFINED),
              Query(UNDEFINED, <<"$">>, UNDEFINED, UNDEFINED)}]

InitEncoding == InitWith(EncodingRequests)

SpecEncoding == InitEncoding /\ [][Next]_vars

\* Stock scenario: qty and is_in_stock present, empty or absent, under
\* thresholds that are absent, numeric, zero, negative and not a number.
StockSkus == {<<"A">>, <<"B">>, <<>>}
StockQtys == {<<>>, <<"5">>, <<"4">>, <<"0">>, <<"x">>, <<"1","2","k","g">>}

StockRows ==
    {Row(<<K_sku, K_qty, K_is_in_stock>>, <<s, q, st>>) :
        s \in StockSkus, q \in StockQtys, st \in {<<>>, <<"0">>, <<"1">>}}

StockRowsNoStatus ==
    {Row(<<K_sku, K_qty>>, <<s, q>>) : s \in StockSkus, q \in StockQtys}

StockRowsNoQty ==
    {Row(<<K_sku, K_is_in_stock>>, <<s, st>>) :
        s \in StockSkus, st \in {<<>>, <<"0">>, <<"1">>}}

StockRequests ==
    [body : Bodies(StockRows, MaxPlainRows)
            \cup Bodies(StockRowsNoStatus, MaxPlainRows)
            \cup Bodies(StockRowsNoQty, MaxPlainRows),
     query : {Query(UNDEFINED, UNDEFINED, UNDEFINED, t) :
                 t \in {UNDEFINED, <<"5">>, <<"0">>, <<"-","1">>, <<"x">>}}]

InitStock == InitWith(StockRequests)

SpecStock == InitStock /\ [][Next]_vars

\* Additional-attribute scenario: the marker followed by two columns, by none,
\* preceded by sku, first of all, or absent.
K_brand == <<"b","r","a","n","d">>
AdditionalSkus == {<<"A">>, <<"B">>, <<>>}

AdditionalRows ==
    {Row(<<K_sku, K_additional_attributes, K_color, K_size>>, <<s, a, c, <<"S">>>>) :
        s \in AdditionalSkus, a \in {<<>>, <<"x">>}, c \in {<<>>, <<"r">>}}

AdditionalRowsMarkerLast ==
    {Row(<<K_sku, K_color, K_additional_attributes>>, <<s, c, <<>>>>) :
        s \in AdditionalSkus, c \in {<<>>, <<"r">>}}

AdditionalRowsMarkerFirst ==
    {Row(<<K_additional_attributes, K_sku, K_color>>, <<<<>>, s, c>>) :
        s \in AdditionalSkus, c \in {<<>>, <<"r">>}}

AdditionalRowsNoMarker ==
    {Row(<<K_sku, K_color, K_brand>>, <<s, c, <<"x">>>>) :
        s \in AdditionalSkus, c \in {<<>>, <<"r">>}}

AdditionalRequests ==
    [body : Bodies(AdditionalRows, MaxPlainRows)
            \cup Bodies(AdditionalRowsMarkerLast, MaxPlainRows)
            \cup Bodies(AdditionalRowsMarkerFirst, MaxPlainRows)
            \cup Bodies(AdditionalRowsNoMarker, MaxPlainRows),
     query : {DefaultQuery, Query(UNDEFINED, <<";">>, UNDEFINED, UNDEFINED)}]

InitAdditional == InitWith(AdditionalRequests)

SpecAdditional == InitAdditional /\ [][Next]_vars

(***************************************************************************)
(* What the claims say, read off the request                               *)
(***************************************************************************)
\* the subsequence of seq at the positions in S, from position j on
RECURSIVE PickFrom(_, _, _)
PickFrom(seq, S, j) ==
    IF j > Len(seq) THEN <<>>
    ELSE (IF j \in S THEN <<seq[j]>> ELSE <<>>) \o PickFrom(seq, S, j + 1)

InputSkus == [j \in 1..Len(event.body) |-> Get(event.body[j], K_sku)]

\* positions of the rows whose sku is neither empty nor white space only
NonBlankPositions == {j \in 1..Len(event.body) : Trim(InputSkus[j]) # <<>>}

\* positions of the rows whose non-blank sku occurred on an earlier row
RepeatPositions ==
    {j \in NonBlankPositions : \E k \in 1..(j - 1) : InputSkus[k] = InputSkus[j]}

IsDuplicateSkuMessage(m) == m # <<>> /\ m[1] = "Can't handle duplicate SKU"

\* whether text occurs in message
Mentions(message, text) == FindFrom(message, text, 1) # 0

Succeeded == pc = "done" /\ response.status = "success"

Failed == pc = "done" /\ response.status = "error"

\* C2: a body in which a non-blank SKU repeats yields the duplicate-SKU error,
\* its message listing each repeated SKU once per occurrence after the first, in
\* input order; a body whose non-blank SKUs are distinct never yields that error.
C2_DuplicateSkuError ==
    pc = "done" =>
        IF RepeatPositions # {}
        THEN /\ response.status = "error"
             /\ response.message =
                    DuplicateSkuMessage(PickFrom(InputSkus, RepeatPositions, 1))
        ELSE ~IsDuplicateSkuMessage(response.message)

\* C4, the states: a running pass always has a row to work on, so the handler
\* takes its next step until it has responded; the response is either the success response carrying one rewritten
\* row per non-blank input row, in input order, or the 401 response carrying
\* only status and message; after an exception no output row exists.
C4_States ==
    /\ pc \in {"start", "index", "duplicates", "relate", "encode", "respond",
               "catch", "done"}
    /\ pc \in {"index", "relate", "encode"} => i < Len(data)
    /\ pc = "done" => response.status \in {"success", "error"}
    /\ Succeeded =>
          /\ response.statusCode = 200
          /\ "data" \in response.fields
          /\ response.data = modifiedData
          /\ [j \in 1..Len(modifiedData) |-> Get(modifiedData[j], K_sku)]
                = PickFrom(InputSkus, NonBlankPositions, 1)
          /\ e = NoError
    /\ Failed =>
          /\ response.statusCode = 401
          /\ response.fields = {"status", "message"}
          /\ response.message = e
          /\ e # NoError
          /\ response.data = <<>>
    /\ (pc = "catch" \/ Failed) => modifiedData = <<>>

\* C4: every invocation ends in exactly one of the two responses, an error
\* response carries no output row, and the encoding pass never throws.
C4_TwoOutcomes ==
    /\ []C4_States
    /\ [][pc = "encode" => pc' # "catch"]_vars

\* C4 witness: a failed invocation whose body had rows to rewrite, and which
\* failed in the relationship pass (a missing attribute value)
C4_Witness ==
    /\ Failed
    /\ Cardinality(NonBlankPositions) >= 2
    /\ response.message = MissingValueMessage(K_size, <<"A">>)

\* the request without its blank-SKU rows
WithoutBlankRows ==
    [body |-> PickFrom(event.body, NonBlankPositions, 1), query |-> event.query]

\* C5: the rows whose SKU is blank do not affect the result: the response is
\* the response to the same request without those rows (some row being left).
C5_BlankRowsIgnored ==
    (pc = "done" /\ NonBlankPositions # {}) => response = Handler(WithoutBlankRows)

\* a child row as the claims define it: non-blank sku, non-empty parent_sku and
\* configurable_attributes
IsChildRow(row) ==
    /\ Trim(Get(row, K_sku)) # <<>>
    /\ Truthy(Get(row, K_parent_sku))
    /\ Truthy(Get(row, K_configurable_attributes))

\* an element of a spec has a parenthesized label: some "(" with a later ")"
HasLabel(element) ==
    \E p \in 1..Len(element) : \E q \in (p + 1)..Len(element) :
        element[p] = "(" /\ element[q] = ")"

FailsGrammar(row) ==
    \E el \in {Split(Get(row, K_configurable_attributes), <<",">>)[j] :
                 j \in 1..Len(Split(Get(row, K_configurable_attributes), <<",">>))} :
        ~HasLabel(el)

\* C10: when a child row's configurable_attributes fails the grammar, the
\* invocation fails without output and the message identifies the SKU of a child
\* row whose spec fails the grammar.
C10_MalformedSpecNamesSku ==
    (pc = "done"
        /\ \E j \in 1..Len(event.body) :
              IsChildRow(event.body[j]) /\ FailsGrammar(event.body[j]))
    => /\ response.status = "error"
       /\ modifiedData = <<>>
       /\ \E j \in 1..Len(event.body) :
             /\ IsChildRow(event.body[j])
             /\ FailsGrammar(event.body[j])
             /\ Mentions(response.message, Get(event.body[j], K_sku))

\* the spec of row j as line 149 parses it
SpecOf(j) ==
    parseConfigurableAttributes(Get(event.body[j], K_configurable_attributes))

\* rows the relationship pass takes for child rows: non-empty sku, parent_sku
\* and configurable_attributes
RelationPositions ==
    {j \in 1..Len(event.body) :
        /\ Len(InputSkus[j]) # 0
        /\ Truthy(Get(event.body[j], K_parent_sku))
        /\ Truthy(Get(event.body[j], K_configurable_attributes))}

\* positions, in the spec of row j, of the codes whose value is empty or undefined
MissingIn(j) ==
    {k \in 1..Len(SpecOf(j).attrs) :
        Get(event.body[j], SpecOf(j).attrs[k].attributeCode) \in {<<>>, UNDEFINED}}

IndexPassClean ==
    /\ RepeatPositions = {}
    /\ \A j \in NonBlankPositions : InputSkus[j] \notin ObjectPrototypeKeys

\* the first row at which the relationship pass cannot go on, 0 when none
FirstFailingRelation ==
    FirstOf({j \in RelationPositions :
                \/ FailsGrammar(event.body[j])
                \/ Get(event.body[j], K_parent_sku) \in ObjectPrototypeKeys
                \/ MissingIn(j) # {}}, 0)

LiteralKids(P) ==
    {j \in 1..Len(event.body) :
        /\ Get(event.body[j], K_parent_sku) = P
        /\ Truthy(P)
        /\ Truthy(Get(event.body[j], K_configurable_attributes))}

\* those of them whose own sku is not empty
Kids(P) == {j \in LiteralKids(P) : Len(InputSkus[j]) # 0}

SameSpec(S) == \A j \in S : \A k \in S : SpecOf(j).attrs = SpecOf(k).attrs

\* 'sku=Ci<mvs>a1=<value><mvs>...<mvs>ak=<value>' for the child on row j
ClaimGroup(j) ==
    Join(<<K_sku \o <<"=">> \o InputSkus[j]>>
            \o [k \in 1..Len(SpecOf(j).attrs) |->
                   SpecOf(j).attrs[k].attributeCode \o <<"=">>
                      \o Get(event.body[j], SpecOf(j).attrs[k].attributeCode)],
         options.multiValueSeperator)

\* the groups of the rows in S, in input order, joined by the group separator
ClaimVariations(S) ==
    Join(PickFrom([j \in 1..Len(event.body) |-> ClaimGroup(j)], S, 1),
         options.valueGroupSeperator)

\* 'a1=L1<mvs>...<mvs>ak=Lk' of the spec of row j
ClaimLabels(j) ==
    Join([k \in 1..Len(SpecOf(j).attrs) |->
             SpecOf(j).attrs[k].attributeCode \o <<"=">> \o SpecOf(j).attrs[k].label],
         options.multiValueSeperator)

\* a property name made of digits only, which an object enumerates before its
\* other properties
IsIntegerLike(code) == code # <<>> /\ \A k \in 1..Len(code) : IsDigit(code[k])

\* the codes of the spec of row j are pairwise distinct, none is 'sku' and
\* none is made of digits only
PlainCodes(j) ==
    \A k \in 1..Len(SpecOf(j).attrs) :
        /\ SpecOf(j).attrs[k].attributeCode # K_sku
        /\ ~IsIntegerLike(SpecOf(j).attrs[k].attributeCode)
        /\ \A m \in 1..Len(SpecOf(j).attrs) :
              SpecOf(j).attrs[k].attributeCode = SpecOf(j).attrs[m].attributeCode
              => k = m

\* the output row r carries the encoding of the child rows S
EncodesKids(r, S) ==
    /\ Get(r, K_configurable_variations) = ClaimVariations(S)
    /\ \A j \in S : Get(r, K_configurable_variation_labels) = ClaimLabels(j)

DecodeGroup(group) ==
    [k \in 1..Len(Split(group, options.multiValueSeperator)) |->
        Split(Split(group, options.multiValueSeperator)[k], <<"=">>)]

\* the groups of a configurable_variations value
Decode(variations) ==
    [g \in 1..Len(Split(variations, options.valueGroupSeperator)) |->
        DecodeGroup(Split(variations, options.valueGroupSeperator)[g])]

Pairs(seq) == {seq[k] : k \in 1..Len(seq)}

\* the decoded groups are, child by child, the child's SKU and exactly the
\* recorded code/value pairs
RoundTrips(variations, childSkus) ==
    /\ Len(Decode(variations)) = Len(childSkus)
    /\ \A g \in 1..Len(childSkus) :
          /\ g <= Len(Decode(variations))
          /\ Pairs(Decode(variations)[g]) =
                {<<K_sku, childSkus[g]>>}
                   \cup Pairs(Own(configurableAttributeValuesByChildren, childSkus[g]))

FreeOfSeparators(text) ==
    /\ ~Mentions(text, options.multiValueSeperator)
    /\ ~Mentions(text, options.valueGroupSeperator)
    /\ ~Mentions(text, <<"=">>)

\* the separators are single characters, different from each other and from '='
PlainSeparators ==
    /\ Len(options.multiValueSeperator) = 1
    /\ Len(options.valueGroupSeperator) = 1
    /\ options.multiValueSeperator # options.valueGroupSeperator
    /\ options.multiValueSeperator # <<"=">>
    /\ options.valueGroupSeperator # <<"=">>

\* the SKU of a child and every code and value recorded for it are free of
\* the separators
CleanChild(childSku) ==
    /\ FreeOfSeparators(childSku)
    /\ \A pair \in Pairs(Own(configurableAttributeValuesByChildren, childSku)) :
          FreeOfSeparators(pair[1]) /\ FreeOfSeparators(pair[2])

KeptRows == PickFrom(event.body, NonBlankPositions, 1)

\* what C6 expects of the is_in_stock value of one row
ClaimStockStatus(row) ==
    LET T   == ParseInt(event.query.auto_stock_status_threshold)
        qty == ParseInt(Get(row, K_qty))
    IN  IF ~T.nan /\ Truthy(Get(row, K_qty)) /\ Truthy(Get(row, K_is_in_stock))
        THEN IF ~qty.nan /\ qty.n >= T.n THEN NUM_1 ELSE NUM_0
        ELSE Get(row, K_is_in_stock)

\* C6 as stated: with an integer threshold T, a row with non-empty qty and
\* is_in_stock gets is_in_stock 1 when its parsed qty is >= T and 0 otherwise;
\* in every other case is_in_stock is left as it was.
C6_StockStatusOverride ==
    Succeeded =>
        /\ Len(modifiedData) = Len(KeptRows)
        /\ \A n \in 1..Len(KeptRows) :
              n <= Len(modifiedData)
              => Get(modifiedData[n], K_is_in_stock) = ClaimStockStatus(KeptRows[n])

(***************************************************************************)
(* Additional attributes (C7, C9)                                          *)
(***************************************************************************)
InputHeaders == IF event.body = <<>> THEN <<>> ELSE Keys(event.body[1])

\* C7 as stated: without the marker header every output row is its input row
\* minus parent_sku and configurable_attributes, plus at most the two
\* configurable columns; no additional_attributes column is added.
C7_NoMarkerNoSquash ==
    (Succeeded /\ ~Contains(InputHeaders, K_additional_attributes)) =>
        /\ Len(modifiedData) = Len(KeptRows)
        /\ \A n \in 1..Len(KeptRows) :
              n <= Len(modifiedData)
              => /\ ~Has(modifiedData[n], K_additional_attributes)
                 /\ purgeColumns(modifiedData[n],
                                 <<K_configurable_variations,
                                   K_configurable_variation_labels>>)
                    = purgeColumns(KeptRows[n],
                                   <<K_parent_sku, K_configurable_attributes>>)

\* position of the marker among the input headers, 0 when absent
MarkerPosition ==
    FirstOf({j \in 1..Len(InputHeaders) :
                InputHeaders[j] = K_additional_attributes}, 0)

\* the headers from position `from` on when the marker is present
HeadersFrom(from) ==
    IF MarkerPosition = 0 THEN <<>>
    ELSE SubSeq(InputHeaders, from, Len(InputHeaders))

\* every header of `located` is encoded into additional_attributes of every
\* output row and removed from it
SquashedAndRemoved(located) ==
    Succeeded =>
        /\ Len(modifiedData) = Len(KeptRows)
        /\ \A n \in 1..Len(KeptRows) :
              n <= Len(modifiedData)
              => /\ Get(modifiedData[n], K_additional_attributes) =
                       Join([k \in 1..Len(located) |->
                                located[k] \o <<"=">> \o Get(KeptRows[n], located[k])],
                            options.multiValueSeperator)
                 /\ \A k \in 1..Len(located) : ~Has(modifiedData[n], located[k])

\* C9 as stated: the locator returns the headers from the marker on, the
\* marker included; each of them is encoded into every row's
\* additional_attributes and removed from the row.
C9_HeadersFromMarker ==
    pc \notin {"start", "catch"} =>
        /\ additionalAttributeHeaders = HeadersFrom(MarkerPosition)
        /\ SquashedAndRemoved(additionalAttributeHeaders)

\* C9 as amended: the locator returns the headers strictly after the marker,
\* the marker excluded; each of them is encoded into every row's
\* additional_attributes and removed from the row.
C9_HeadersAfterMarker ==
    pc \notin {"start", "catch"} =>
        /\ additionalAttributeHeaders = HeadersFrom(MarkerPosition + 1)
        /\ SquashedAndRemoved(additionalAttributeHeaders)

\* C9 witness: two headers follow the marker and a row comes out with both
\* encoded and removed
C9_Witness ==
    /\ Succeeded
    /\ MarkerPosition = 2
    /\ additionalAttributeHeaders = <<K_color, K_size>>
    /\ Len(modifiedData) = 2
    /\ Get(modifiedData[1], K_additional_attributes) =
          K_color \o <<"=", "r">> \o options.multiValueSeperator
             \o K_size \o <<"=", "S">>
    /\ ~Has(modifiedData[1], K_color)

====
